---- MODULE Spec2Model ----
(***************************************************************************)
(* Pipeline lifecycle engine of chi_annotator/task_center/model.py:        *)
(* Trainer (construction, train, persist) and Interpreter (load, create,   *)
(* parse), driven over a small family of deterministic stub components.    *)
(***************************************************************************)
EXTENDS Integers, Sequences, FiniteSets, TLC

(***************************************************************************)
(* Bounds of the model.                                                    *)
(***************************************************************************)
MaxPipeline == 3      \* longest configured pipeline
MaxTrains == 2        \* calls of Trainer.train
MaxPersists == 2      \* calls of Trainer.persist
MaxLoads == 1         \* calls of Interpreter.load
MaxParses == 2        \* calls of parse per Interpreter
MaxClock == 2         \* last clock tick
TicksPerSecond == 2   \* clock ticks in one second of the wall clock

(***************************************************************************)
(* Python values.                                                          *)
(***************************************************************************)
\* None where a text, a name or a reference is expected
None == "<None>"

\* a returned mapping, or None
Some(d) == [isNone |-> FALSE, val |-> d]

NoneRet == [isNone |-> TRUE, val |-> <<>>]

\* the empty dict
EmptyDict == <<>>

\* truth value of a returned mapping: None and {} are both false
Truthy(r) == ~r.isNone /\ DOMAIN r.val # {}

\* (a changed update: the keys already present are kept)
DictUpdateKeepEarlier(d, u) ==
    [k \in DOMAIN d \cup DOMAIN u |-> IF k \in DOMAIN d THEN d[k] ELSE u[k]]

\* dict.update: the keys of u overwrite those of d
DictUpdate(d, u) ==
    [k \in DOMAIN d \cup DOMAIN u |-> IF k \in DOMAIN u THEN u[k] ELSE d[k]]

\* `updates = ...; if updates: target.update(updates)`
UpdateIfTruthy(d, r) == IF Truthy(r) THEN DictUpdate(d, r.val) ELSE d

(***************************************************************************)
(* The stub components: each name is a deterministic component class.      *)
(***************************************************************************)
Names == {"A", "B", "C", "D", "E"}

\* the configured pipelines: every sequence of distinct component names
Pipelines ==
    {p \in UNION {[1..n -> Names] : n \in 0..MaxPipeline} :
        \A a, b \in DOMAIN p : a # b => p[a] # p[b]}

Languages == {"zh"}

\* Component.provide_context()
provide_context(c) ==
    CASE c = "A" -> Some([x |-> 1])
      [] c = "B" -> Some([x |-> 2, y |-> 3])
      [] c = "C" -> NoneRet
      [] c = "D" -> Some(EmptyDict)
      [] c = "E" -> NoneRet

\* context keys the train method of a component declares as required
train_requires(c) == IF c = "D" THEN {"m"} ELSE {}

\* context keys the train method of a component returns
train_provides(c) == IF c = "C" THEN {"m", "x"} ELSE {}

\* Component.train(data, config, **context): raises when a required key is missing
train_raises(c, ctx) == ~(train_requires(c) \subseteq DOMAIN ctx)

\* Component.train: the mapping it returns
train_returns(c) ==
    CASE c = "A" -> NoneRet
      [] c = "B" -> Some(EmptyDict)
      [] c = "C" -> Some([m |-> 7, x |-> 9])
      [] c = "D" -> NoneRet
      [] c = "E" -> NoneRet

\* Component.prepare_partial_processing(pipeline, context) raises
prepare_raises(c, prior) == c = "E" /\ \E n \in DOMAIN prior : prior[n] = "A"

\* the error a component's prepare_partial_processing raises
prepare_error(c) == "RuntimeError"

\* the error a component's train raises
train_error(c) == "TypeError"

\* Component.train: the destructive annotation of the data it is given
train_annotates(c, data) == data \cup {c}

\* Component.persist(dir): the mapping it returns
component_persist(c) ==
    CASE c = "A" -> NoneRet
      [] c = "B" -> Some([B_file |-> "b.dat"])
      [] c = "C" -> Some(EmptyDict)
      [] c = "D" -> Some([pipeline |-> <<>>])
      [] c = "E" -> NoneRet

\* a component loaded with the keyword arguments ctx raises
\* MissingArgumentError from provide_context()
loaded_provide_context_raises(c, ctx) == c = "E" /\ "y" \notin DOMAIN ctx

\* TrainingData.persist(dir): the mapping the corpus returns
corpus_persist == [training_data |-> "training_data.json"]

\* validate_arguments(pipeline, context): TRUE when every component's required
\* keys are in the context or promised by the train of an earlier component
validate_arguments(pl, ctx) ==
    \A n \in 1..Len(pl) :
        train_requires(pl[n]) \subseteq
            (DOMAIN ctx \cup UNION {train_provides(pl[j]) : j \in 1..(n - 1)})

\* utils.module_path_from_object(component): the identifier stored in Metadata
module_path_from_object(c) == <<"stubs", c>>

\* ComponentBuilder.create_component(name, config)
create_component(name) == name

\* ComponentBuilder.load_component(identifier, model_dir, metadata, ...)
load_component(ident) == ident[2]

(***************************************************************************)
(* Message and the output attributes.                                      *)
(***************************************************************************)
\* Interpreter.default_output_attributes()
default_output_attributes ==
    [intent |-> [name |-> "", confidence |-> 0], entities |-> <<>>]

\* Message(text, data, time=time)
Message(text, data, time) ==
    [text |-> text, data |-> data, output_properties |-> {}, time |-> time]

\* Message.set(prop, info, add_to_output)
message_set(msg, prop, info, add_to_output) ==
    [msg EXCEPT !.data = DictUpdate(@, [k \in {prop} |-> info]),
                !.output_properties = IF add_to_output THEN @ \cup {prop} ELSE @]

\* Message.as_dict(only_output_properties)
as_dict(msg, only_output_properties) ==
    IF only_output_properties
    THEN [k \in DOMAIN msg.data \cap msg.output_properties |-> msg.data[k]]
    ELSE msg.data

\* Component.process(message, **context) raises
process_raises(c, ctx) == c \in {"D", "E"} /\ "m" \notin DOMAIN ctx

\* the error a component's process raises
process_error(c) == IF c = "E" THEN "KeyError" ELSE "TypeError"

\* Component.process(message, **context): the message after the call
process(c, msg, ctx) ==
    CASE c = "A" ->
           message_set(msg, "intent", [name |-> "a", confidence |-> 1], TRUE)
      [] c = "B" ->
           message_set(message_set(msg, "tokens", <<"t">>, FALSE),
                       "entities", Append(msg.data["entities"], "b"), TRUE)
      [] c = "C" ->
           message_set(msg, "intent",
                       [name |-> "c",
                        confidence |-> IF "m" \in DOMAIN ctx THEN ctx["m"] ELSE 0],
                       TRUE)
      [] c = "D" ->
           message_set(msg, "entities", Append(msg.data["entities"], "d"), TRUE)
      [] c = "E" ->
           message_set(msg, "intent", [name |-> "e", confidence |-> 2], FALSE)

\* the message keys the process of a component writes
process_writes(c) ==
    CASE c = "A" -> {"intent"}
      [] c = "B" -> {"tokens", "entities"}
      [] c = "C" -> {"intent"}
      [] c = "D" -> {"entities"}
      [] c = "E" -> {"intent"}

\* the message keys the process of a component marks as output properties
process_marks(c) ==
    CASE c = "A" -> {"intent"}
      [] c = "B" -> {"entities"}
      [] c = "C" -> {"intent"}
      [] c = "D" -> {"entities"}
      [] c = "E" -> {}

(***************************************************************************)
(* The corpus objects live on a heap, so that aliasing can be told from    *)
(* copying.                                                                *)
(***************************************************************************)
\* the caller's corpus object
CallerData == 0

\* None where a heap reference is expected
NoRef == -1

NextRef(h) == Cardinality(DOMAIN h)

\* (a changed copy: `working_data = data`, the same object)
no_copy(h, ref) == [ref |-> ref, heap |-> h]

\* copy.deepcopy(data): a new object with the same value
deepcopy(h, ref) ==
    [ref |-> NextRef(h), heap |-> h @@ (NextRef(h) :> h[ref])]

(***************************************************************************)
(* State.                                                                  *)
(***************************************************************************)
VARIABLES
    config,            \* Trainer.config: pipeline names and language
    skip_validation,   \* Trainer.skip_validation
    trainer_pipeline,  \* Trainer.pipeline: the component instances, by class
    trained,           \* per component instance: completed train calls
    training_data,     \* Trainer.training_data: a heap reference or None
    heap,              \* corpus objects: reference -> set of annotations
    pc,                \* position of the (single) training thread
    frame,             \* locals of the call the training thread is in
    train_log,         \* component calls of the current or last train call
    prev_train_log,    \* component calls of the train call before that one
    train_result,      \* outcome of the last train call
    n_train,           \* train calls started
    n_trained_ok,      \* train calls that returned an Interpreter
    now,               \* the wall clock, in ticks
    fs,                \* the model directories on disk
    persist_log,       \* steps of the current or last persist call
    n_persist,         \* persist calls started
    persist_result,    \* outcome of the last persist call
    interp,            \* the Interpreter returned by train and the one loaded
    create_log,        \* component calls of the current or last create call
    n_load,            \* Interpreter.load calls started
    create_result,     \* outcome of the last Interpreter.load call
    parse              \* per Interpreter: its parse call and the last result

vars == <<config, skip_validation, trainer_pipeline, trained, training_data,
          heap, pc, frame, train_log, prev_train_log, train_result, n_train,
          n_trained_ok, now, fs, persist_log, n_persist, persist_result, interp,
          create_log, n_load, create_result, parse>>

trainVars == <<trained, training_data, heap, train_log, prev_train_log,
               train_result, n_train, n_trained_ok>>

persistVars == <<now, fs, persist_log, n_persist, persist_result>>

loadVars == <<create_log, n_load, create_result>>

trainerObject == <<config, skip_validation, trainer_pipeline>>

\* the two Interpreter instances of the model
Interpreters == {"trained", "loaded"}

NoInterpreter ==
    [exists |-> FALSE, pipeline |-> <<>>, context |-> EmptyDict,
     model_metadata |-> NoneRet]

\* Interpreter.__init__(pipeline, context, model_metadata)
Interpreter(pipeline, context, model_metadata) ==
    [exists |-> TRUE, pipeline |-> pipeline, context |-> context,
     model_metadata |-> model_metadata]

NoParse ==
    [pc |-> "idle", text |-> None, time |-> None, message |-> NoneRet, i |-> 0,
     output |-> NoneRet, result |-> "none", log |-> <<>>, calls |-> 0]

AllParsesIdle == \A k \in Interpreters : parse[k].pc = "idle"

NoFrame == <<>>

\* the outcome of a call: none yet, running, returned, or raised with the
\* error, the component it names and the cause it carries
Outcome(status, error, component, cause) ==
    [status |-> status, error |-> error, component |-> component,
     cause |-> cause]

Event(call, pos, name, ctx, data) ==
    [call |-> call, pos |-> pos, name |-> name, context |-> ctx, data |-> data,
     prior |-> <<>>, written |-> <<>>]

(***************************************************************************)
(* Trainer.__init__                                                        *)
(***************************************************************************)
Init ==
    /\ config \in [pipeline : Pipelines, language : Languages]
    /\ skip_validation \in BOOLEAN
    /\ trainer_pipeline =
           [n \in 1..Len(config.pipeline) |-> create_component(config.pipeline[n])]
    /\ trained = [n \in 1..Len(config.pipeline) |-> 0]
    /\ training_data = NoRef
    /\ heap = (CallerData :> {"gold"})
    /\ pc = "idle"
    /\ frame = NoFrame
    /\ train_log = <<>>
    /\ prev_train_log = <<>>
    /\ train_result = "none"
    /\ n_train = 0
    /\ n_trained_ok = 0
    /\ now = 0
    /\ fs = <<>>
    /\ persist_log = <<>>
    /\ n_persist = 0
    /\ persist_result = "none"
    /\ interp = [k \in Interpreters |-> NoInterpreter]
    /\ create_log = <<>>
    /\ n_load = 0
    /\ create_result = Outcome("none", None, None, None)
    /\ parse = [k \in Interpreters |-> NoParse]

(***************************************************************************)
(* Trainer.train                                                           *)
(***************************************************************************)
\* (a changed start: the dict of the last returned Interpreter is used again)
kept_context ==
    IF interp["trained"].exists THEN interp["trained"].context ELSE EmptyDict

\* `context = {}`
new_context == EmptyDict

\* train(data) is entered: self.training_data = data; context = {}
TrainBegin ==
    /\ pc = "idle"
    /\ AllParsesIdle
    /\ n_train < MaxTrains
    /\ training_data' = CallerData
    /\ frame' = [data |-> CallerData, context |-> new_context, i |-> 1,
                 working_data |-> NoRef]
    /\ train_log' = <<>>
    /\ prev_train_log' = train_log
    /\ train_result' = "running"
    /\ n_train' = n_train + 1
    /\ pc' = "train_context"
    /\ UNCHANGED <<config, skip_validation, trainer_pipeline, trained, heap,
                   n_trained_ok>>
    /\ UNCHANGED <<persistVars, loadVars, interp, parse>>

\* one turn of the provide_context loop
TrainProvideContext ==
    /\ pc = "train_context"
    /\ frame.i <= Len(trainer_pipeline)
    /\ LET c == trainer_pipeline[frame.i]
       IN /\ frame' = [frame EXCEPT
                          !.context = UpdateIfTruthy(@, provide_context(c)),
                          !.i = @ + 1]
          /\ train_log' = Append(train_log,
                 Event("provide_context", frame.i, c, frame.context, NoRef))
    /\ UNCHANGED <<config, skip_validation, trainer_pipeline, trained,
                   training_data, heap, pc, prev_train_log, train_result,
                   n_train, n_trained_ok>>
    /\ UNCHANGED <<persistVars, loadVars, interp, parse>>

\* (a changed condition: `if self.skip_validation:`)
validation_inverted == skip_validation

\* `if not self.skip_validation:`
validation_enabled == ~skip_validation

\* the argument validation, unless skipped
TrainValidate ==
    /\ pc = "train_context"
    /\ frame.i > Len(trainer_pipeline)
    /\ IF ~validation_enabled
       THEN /\ pc' = "train_copy"
            /\ UNCHANGED <<train_log, train_result, frame>>
       ELSE /\ train_log' = Append(train_log,
                   Event("validate_arguments", 0, None, frame.context, NoRef))
            /\ IF validate_arguments(trainer_pipeline, frame.context)
               THEN /\ pc' = "train_copy"
                    /\ UNCHANGED <<train_result, frame>>
               ELSE /\ pc' = "idle"
                    /\ train_result' = "MissingArgumentError"
                    /\ frame' = NoFrame
    /\ UNCHANGED <<config, skip_validation, trainer_pipeline, trained,
                   training_data, heap, prev_train_log, n_train, n_trained_ok>>
    /\ UNCHANGED <<persistVars, loadVars, interp, parse>>

\* working_data = copy.deepcopy(data)
TrainDeepCopy ==
    /\ pc = "train_copy"
    /\ LET cp == deepcopy(heap, frame.data)
       IN /\ heap' = cp.heap
          /\ frame' = [frame EXCEPT !.working_data = cp.ref, !.i = 1]
    /\ pc' = "train_prepare"
    /\ UNCHANGED <<config, skip_validation, trainer_pipeline, trained,
                   training_data, train_log, prev_train_log, train_result,
                   n_train, n_trained_ok>>
    /\ UNCHANGED <<persistVars, loadVars, interp, parse>>

\* (a changed slice: `self.pipeline[:i + 1]`, the component itself included)
pipeline_upto_inclusive(pipeline, i) == SubSeq(pipeline, 1, i)

\* `self.pipeline[:i]` for the component at (1-based) position i
pipeline_upto(pipeline, i) == SubSeq(pipeline, 1, i - 1)

\* (a changed propagation: the error is caught and another one raised)
raised_wrapped(error) == "Exception"

\* an error raised inside train or parse reaches the caller as it is: no
\* statement of either method catches it
raised(error) == error

\* component.prepare_partial_processing(self.pipeline[:i], context)
TrainPrepare ==
    /\ pc = "train_prepare"
    /\ frame.i <= Len(trainer_pipeline)
    /\ LET c == trainer_pipeline[frame.i]
           prior == pipeline_upto(trainer_pipeline, frame.i)
       IN /\ train_log' = Append(train_log,
                 [Event("prepare_partial_processing", frame.i, c,
                        frame.context, NoRef) EXCEPT !.prior = prior])
          /\ IF prepare_raises(c, prior)
             THEN /\ pc' = "idle"
                  /\ train_result' = raised(prepare_error(c))
                  /\ frame' = NoFrame
             ELSE /\ pc' = "train_component"
                  /\ UNCHANGED <<train_result, frame>>
    /\ UNCHANGED <<config, skip_validation, trainer_pipeline, trained,
                   training_data, heap, prev_train_log, n_train,
                   n_trained_ok>>
    /\ UNCHANGED <<persistVars, loadVars, interp, parse>>

\* updates = component.train(working_data, self.config, **context)
TrainComponent ==
    /\ pc = "train_component"
    /\ LET c == trainer_pipeline[frame.i]
       IN /\ train_log' = Append(train_log,
                 Event("train", frame.i, c, frame.context, frame.working_data))
          /\ IF train_raises(c, frame.context)
             THEN /\ pc' = "idle"
                  /\ train_result' = raised(train_error(c))
                  /\ frame' = NoFrame
                  /\ UNCHANGED <<heap, trained>>
             ELSE /\ heap' = [heap EXCEPT ![frame.working_data] =
                                 train_annotates(c, @)]
                  /\ trained' = [trained EXCEPT ![frame.i] = @ + 1]
                  /\ frame' = [frame EXCEPT
                         !.context = UpdateIfTruthy(@, train_returns(c)),
                         !.i = @ + 1]
                  /\ pc' = "train_prepare"
                  /\ UNCHANGED train_result
    /\ UNCHANGED <<config, skip_validation, trainer_pipeline, training_data,
                   prev_train_log, n_train, n_trained_ok>>
    /\ UNCHANGED <<persistVars, loadVars, interp, parse>>

\* return Interpreter(self.pipeline, context)
TrainReturn ==
    /\ pc = "train_prepare"
    /\ frame.i > Len(trainer_pipeline)
    /\ pc' = "idle"
    /\ train_result' = "returned"
    /\ n_trained_ok' = n_trained_ok + 1
    /\ interp' = [interp EXCEPT !["trained"] =
                      Interpreter(trainer_pipeline, frame.context, NoneRet)]
    /\ parse' = [parse EXCEPT !["trained"] = NoParse]
    /\ frame' = NoFrame
    /\ UNCHANGED <<config, skip_validation, trainer_pipeline, trained,
                   training_data, heap, train_log, prev_train_log, n_train>>
    /\ UNCHANGED <<persistVars, loadVars>>

(***************************************************************************)
(* Trainer.persist                                                         *)
(***************************************************************************)
Paths == {"models"}

ProjectNames == {None, "proj"}

\* None (or "") where a model name is expected
NoName == <<>>

FixedModelNames == {NoName, <<"fixed">>}

Persistors == {None, "persistor"}

\* datetime.datetime.now().strftime('%Y%m%d-%H%M%S'): whole seconds
strftime(ticks) == ticks \div TicksPerSecond

\* "model_" + timestamp
timestamp_model_name(timestamp) == <<"model_", timestamp>>

\* os.path.join(path, project_name, model_name)
path_join(path, project_name, model_name) == <<path, project_name, model_name>>

\* a directory: the Metadata file, the artifact files by writer, how often the
\* Metadata was written and the directory returned by a persist call without
\* fixed_model_name, and whether its last writer was a Trainer whose train had
\* returned
EmptyDir ==
    [metadata |-> NoneRet, files |-> {}, metadata_writes |-> 0,
     unnamed_returns |-> 0, of_trained |-> FALSE]

\* create_dir(dir_name): makes the directory unless it exists
create_dir(disk, dir_name) ==
    IF dir_name \in DOMAIN disk THEN disk ELSE disk @@ (dir_name :> EmptyDir)

\* the metadata dict of lines 88-92
initial_metadata ==
    [language |-> config.language,
     pipeline |-> [n \in 1..Len(trainer_pipeline) |->
                      module_path_from_object(trainer_pipeline[n])]]

\* persist(path, persistor, project_name, fixed_model_name) up to create_dir
\* (the clock is read here: it has not gone back since it was last read)
PersistBegin(path, persistor, project_name, fixed_model_name, clock) ==
    /\ pc = "idle"
    /\ AllParsesIdle
    /\ n_persist < MaxPersists
    /\ clock >= now
    /\ now' = clock
    /\ LET timestamp == strftime(clock)
           project == IF project_name = None THEN "default" ELSE project_name
           model_name == IF fixed_model_name # NoName
                         THEN fixed_model_name
                         ELSE timestamp_model_name(timestamp)
           dir_name == path_join(path, project, model_name)
       IN /\ frame' = [path |-> path, persistor |-> persistor,
                       project_name |-> project,
                       fixed_model_name |-> fixed_model_name,
                       model_name |-> model_name, dir_name |-> dir_name,
                       metadata |-> initial_metadata, i |-> 1]
          /\ fs' = create_dir(fs, dir_name)
          /\ persist_log' = <<Event("create_dir", 0, None, EmptyDict, NoRef)>>
    /\ n_persist' = n_persist + 1
    /\ persist_result' = "running"
    /\ pc' = "persist_corpus"
    /\ UNCHANGED <<trainerObject, trainVars, interp, loadVars, parse>>

\* if self.training_data: metadata.update(self.training_data.persist(dir_name))
PersistCorpus ==
    /\ pc = "persist_corpus"
    /\ IF training_data # NoRef
       THEN /\ frame' = [frame EXCEPT
                           !.metadata = DictUpdate(@, corpus_persist)]
            /\ fs' = [fs EXCEPT ![frame.dir_name].files = @ \cup {"corpus"}]
            /\ persist_log' = Append(persist_log,
                   Event("corpus.persist", 0, None, EmptyDict, training_data))
       ELSE UNCHANGED <<frame, fs, persist_log>>
    /\ pc' = "persist_component"
    /\ UNCHANGED <<trainerObject, trainVars, now, n_persist, persist_result,
                   interp, loadVars, parse>>

\* one turn of the component.persist loop
PersistComponent ==
    /\ pc = "persist_component"
    /\ frame.i <= Len(trainer_pipeline)
    /\ LET c == trainer_pipeline[frame.i]
       IN /\ frame' = [frame EXCEPT
                          !.metadata = UpdateIfTruthy(@, component_persist(c)),
                          !.i = @ + 1]
          /\ fs' = [fs EXCEPT ![frame.dir_name].files = @ \cup {c}]
          /\ persist_log' = Append(persist_log,
                 Event("persist", frame.i, c, EmptyDict, NoRef))
    /\ UNCHANGED <<trainerObject, trainVars, pc, now, n_persist,
                   persist_result, interp, loadVars, parse>>

\* Metadata(metadata, dir_name).persist(dir_name)
PersistMetadata ==
    /\ pc = "persist_component"
    /\ frame.i > Len(trainer_pipeline)
    /\ fs' = [fs EXCEPT ![frame.dir_name].metadata = Some(frame.metadata),
                        ![frame.dir_name].metadata_writes = @ + 1,
                        ![frame.dir_name].of_trained = n_trained_ok > 0]
    /\ persist_log' = Append(persist_log,
           Event("Metadata.persist", 0, None, EmptyDict, NoRef))
    /\ pc' = "persist_persistor"
    /\ UNCHANGED <<trainerObject, trainVars, frame, now, n_persist,
                   persist_result, interp, loadVars, parse>>

\* (a changed condition: the persistor is called whatever it is)
persistor_always(persistor) == TRUE

\* `if persistor is not None:`
persistor_given(persistor) == persistor # None

\* if persistor is not None: persistor.persist(dir_name, model_name, project_name)
PersistPersistor ==
    /\ pc = "persist_persistor"
    /\ persist_log' =
           IF persistor_given(frame.persistor)
           THEN Append(persist_log,
                       Event("persistor.persist", 0, None, EmptyDict, NoRef))
           ELSE persist_log
    /\ pc' = "persist_return"
    /\ UNCHANGED <<trainerObject, trainVars, frame, now, fs, n_persist,
                   persist_result, interp, loadVars, parse>>

\* return dir_name
PersistReturn ==
    /\ pc = "persist_return"
    /\ UNCHANGED persist_log
    /\ fs' = [fs EXCEPT ![frame.dir_name].unnamed_returns =
                  IF frame.fixed_model_name = NoName THEN @ + 1 ELSE @]
    /\ persist_result' = "returned"
    /\ pc' = "idle"
    /\ frame' = NoFrame
    /\ UNCHANGED <<trainerObject, trainVars, now, n_persist, interp, loadVars,
                   parse>>

(***************************************************************************)
(* Interpreter.load and Interpreter.create                                 *)
(***************************************************************************)
\* Metadata.load(model_dir): the record read back, with its model_dir
Metadata(metadata, model_dir) == [metadata |-> metadata, model_dir |-> model_dir]

\* Metadata.pipeline
metadata_pipeline(model_metadata) == model_metadata.metadata["pipeline"]

\* load(model_dir, ...) and create(...) up to the component loop
Load(model_dir, skip_valdation) ==
    /\ pc = "idle"
    /\ AllParsesIdle
    /\ n_load < MaxLoads
    /\ model_dir \in DOMAIN fs
    /\ ~fs[model_dir].metadata.isNone
    /\ frame' = [model_metadata |-> Metadata(fs[model_dir].metadata.val, model_dir),
                 context |-> EmptyDict, pipeline |-> <<>>, i |-> 1]
    /\ create_log' =
           IF skip_valdation
           THEN <<>>
           ELSE <<Event("validate_requirements", 0, None, EmptyDict, NoRef)>>
    /\ n_load' = n_load + 1
    /\ create_result' = Outcome("running", None, None, None)
    /\ pc' = "create_component"
    /\ UNCHANGED <<trainerObject, trainVars, persistVars, interp, parse>>

\* load(model_metadata, ...): the deprecated call with a Metadata object
LoadMetadata(model_metadata, skip_valdation) ==
    /\ model_metadata.model_dir \in DOMAIN fs
    /\ ~fs[model_metadata.model_dir].metadata.isNone
    /\ model_metadata.metadata = fs[model_metadata.model_dir].metadata.val
    /\ Load(model_metadata.model_dir, skip_valdation)

\* (a changed fold: `context = updates`)
context_replaced(context, updates) ==
    IF Truthy(updates) THEN updates.val ELSE context

\* updates = component.provide_context(); if updates: context.update(updates)
context_updated(context, updates) == UpdateIfTruthy(context, updates)

\* (a changed handler: the error raised does not name the component)
initialization_error_unnamed(component, e) ==
    Outcome("raised", "Exception", None, e)

\* raise Exception("Failed to initialize component '{}'. {}".format(
\*     component.name, e))
initialization_error(component, e) ==
    Outcome("raised", "Exception", component, e)

\* one turn of the load_component loop
CreateComponent ==
    /\ pc = "create_component"
    /\ frame.i <= Len(metadata_pipeline(frame.model_metadata))
    /\ LET component ==
               load_component(metadata_pipeline(frame.model_metadata)[frame.i])
       IN /\ create_log' = Append(create_log,
                 Event("load_component", frame.i, component, frame.context, NoRef))
          /\ IF loaded_provide_context_raises(component, frame.context)
             THEN /\ create_result' =
                         initialization_error(component, "MissingArgumentError")
                  /\ pc' = "idle"
                  /\ frame' = NoFrame
             ELSE /\ frame' = [frame EXCEPT
                         !.context =
                             context_updated(@, provide_context(component)),
                         !.pipeline = Append(@, component),
                         !.i = @ + 1]
                  /\ UNCHANGED <<pc, create_result>>
    /\ UNCHANGED <<trainerObject, trainVars, persistVars, n_load, interp,
                   parse>>

\* return Interpreter(pipeline, context, model_metadata)
CreateReturn ==
    /\ pc = "create_component"
    /\ frame.i > Len(metadata_pipeline(frame.model_metadata))
    /\ interp' = [interp EXCEPT !["loaded"] =
           Interpreter(frame.pipeline, frame.context, Some(frame.model_metadata))]
    /\ parse' = [parse EXCEPT !["loaded"] = NoParse]
    /\ create_result' = Outcome("returned", None, None, None)
    /\ pc' = "idle"
    /\ frame' = NoFrame
    /\ UNCHANGED <<trainerObject, trainVars, persistVars, create_log, n_load>>

(***************************************************************************)
(* Interpreter.parse                                                       *)
(***************************************************************************)
Texts == {None, "", "hi"}

Times == {None}

\* (a changed `not text`: `text is None`)
is_falsy_text_none_only(text) == text = None

\* `not text`
is_falsy_text(text) == text = None \/ text = ""

\* output = self.default_output_attributes(); output["text"] = ""
empty_output == DictUpdate(default_output_attributes, [text |-> ""])

\* (a changed default: one mapping, made once and handed to every call, which
\* holds what the components of the call before have written into it)
kept_defaults(k) ==
    IF parse[k].message.isNone
    THEN default_output_attributes
    ELSE parse[k].message.val.data

\* `self.default_output_attributes()`: a mapping made by this call
new_defaults(k) == default_output_attributes

\* parse(text, time) up to the component loop
ParseBegin(k, text, time) ==
    /\ pc = "idle"
    /\ interp[k].exists
    /\ parse[k].pc = "idle"
    /\ parse[k].calls < MaxParses
    /\ IF is_falsy_text(text)
       THEN parse' = [parse EXCEPT ![k] =
                [pc |-> "idle", text |-> text, time |-> time,
                 message |-> NoneRet, i |-> 0,
                 output |-> Some(empty_output),
                 result |-> "returned", log |-> <<>>, calls |-> @.calls + 1]]
       ELSE parse' = [parse EXCEPT ![k] =
                [pc |-> "process", text |-> text, time |-> time,
                 message |-> Some(Message(text, new_defaults(k), time)),
                 i |-> 1, output |-> NoneRet, result |-> "running",
                 log |-> <<>>, calls |-> @.calls + 1]]
    /\ UNCHANGED <<trainerObject, trainVars, persistVars, loadVars, pc, frame,
                   interp>>

\* (a changed iteration: the pipeline from its end)
pipeline_item_reversed(pipeline, i) == pipeline[Len(pipeline) + 1 - i]

\* `for component in self.pipeline`: the component of turn i
pipeline_item(pipeline, i) == pipeline[i]

\* (a changed context: one dict for every Interpreter)
shared_context(k) == interp["trained"].context

\* `self.context`: the context of the Interpreter parse is called on
own_context(k) == interp[k].context

\* component.process(message, **self.context) for one component
ParseProcess(k) ==
    /\ parse[k].pc = "process"
    /\ parse[k].i <= Len(interp[k].pipeline)
    /\ LET c == pipeline_item(interp[k].pipeline, parse[k].i)
           ctx == own_context(k)
           entry == Event("process", parse[k].i, c, ctx, NoRef)
       IN IF process_raises(c, ctx)
          THEN parse' = [parse EXCEPT ![k].pc = "idle",
                                      ![k].result = raised(process_error(c)),
                                      ![k].log = Append(@, entry)]
          ELSE LET after == process(c, parse[k].message.val, ctx)
               IN parse' = [parse EXCEPT
                      ![k].message = Some(after),
                      ![k].i = @ + 1,
                      ![k].log = Append(@,
                          [entry EXCEPT !.written =
                              [key \in process_writes(c) |-> after.data[key]]])]
    /\ UNCHANGED <<trainerObject, trainVars, persistVars, loadVars, pc, frame,
                   interp>>

\* (a changed merge: the message's dict alone, without the defaults)
parse_output_no_defaults(message) == as_dict(message, TRUE)

\* (a changed merge: the defaults laid over the message's dict)
parse_output_defaults_win(message) ==
    DictUpdate(as_dict(message, TRUE), default_output_attributes)

\* output = defaults; output.update(message.as_dict(only_output_properties=True))
parse_output(message) ==
    DictUpdate(default_output_attributes, as_dict(message, TRUE))

\* the merge of the defaults and the message, returned
ParseReturn(k) ==
    /\ parse[k].pc = "process"
    /\ parse[k].i > Len(interp[k].pipeline)
    /\ parse' = [parse EXCEPT
           ![k].output = Some(parse_output(parse[k].message.val)),
           ![k].result = "returned",
           ![k].pc = "idle"]
    /\ UNCHANGED <<trainerObject, trainVars, persistVars, loadVars, pc, frame,
                   interp>>

(***************************************************************************)
(* Specifications.                                                         *)
(***************************************************************************)
Train ==
    \/ TrainProvideContext
    \/ TrainValidate
    \/ TrainDeepCopy
    \/ TrainPrepare
    \/ TrainComponent
    \/ TrainReturn

Persist ==
    \/ PersistCorpus
    \/ PersistComponent
    \/ PersistMetadata
    \/ PersistPersistor
    \/ PersistReturn

Create ==
    \/ CreateComponent
    \/ CreateReturn

Parse ==
    \/ \E k \in Interpreters, text \in Texts, time \in Times :
          ParseBegin(k, text, time)
    \/ \E k \in Interpreters : ParseProcess(k)
    \/ \E k \in Interpreters : ParseReturn(k)

AnyPersistBegin ==
    \E path \in Paths, persistor \in Persistors, project_name \in ProjectNames,
       fixed_model_name \in FixedModelNames, clock \in 0..MaxClock :
       PersistBegin(path, persistor, project_name, fixed_model_name, clock)

AnyLoad ==
    \E model_dir \in DOMAIN fs, skip_valdation \in BOOLEAN :
       \/ Load(model_dir, skip_valdation)
       \/ LoadMetadata(Metadata(fs[model_dir].metadata.val, model_dir),
                       skip_valdation)

\* every call of the engine, in any order
Next ==
    \/ TrainBegin
    \/ Train
    \/ AnyPersistBegin
    \/ Persist
    \/ AnyLoad
    \/ Create
    \/ Parse

Spec == Init /\ [][Next]_vars

\* the Trainer alone: train calls
NextTrain ==
    \/ TrainBegin
    \/ Train

SpecTrain == Init /\ [][NextTrain]_vars

\* the Trainer alone: persist calls, before and after at most one train call
NextPersist ==
    \/ n_train = 0 /\ TrainBegin
    \/ Train
    \/ AnyPersistBegin
    \/ Persist

SpecPersist == Init /\ [][NextPersist]_vars

\* the Trainer alone: one persist call, before or after at most one train call
NextPersistOnce ==
    \/ n_train = 0 /\ TrainBegin
    \/ Train
    \/ n_persist = 0 /\ AnyPersistBegin
    \/ Persist

SpecPersistOnce == Init /\ [][NextPersistOnce]_vars

\* one train and one persist with default arguments in any order, then load
\* and one parse call on each Interpreter, their steps interleaved
NextRoundTrip ==
    \/ n_train = 0 /\ TrainBegin
    \/ Train
    \/ n_persist = 0 /\ PersistBegin("models", None, None, NoName, now)
    \/ Persist
    \/ AnyLoad
    \/ Create
    \/ \E k \in Interpreters, text \in Texts, time \in Times :
          parse[k].calls = 0 /\ ParseBegin(k, text, time)
    \/ \E k \in Interpreters : ParseProcess(k)
    \/ \E k \in Interpreters : ParseReturn(k)

SpecRoundTrip == Init /\ [][NextRoundTrip]_vars

\* one train, one persist with default arguments and one load, and parse
\* calls one after the other on the Interpreters
NextParse ==
    \/ n_train = 0 /\ TrainBegin
    \/ Train
    \/ n_persist = 0 /\ PersistBegin("models", None, None, NoName, now)
    \/ Persist
    \/ n_load = 0 /\ AnyLoad
    \/ Create
    \/ \E k \in Interpreters, text \in Texts, time \in Times :
          AllParsesIdle /\ ParseBegin(k, text, time)
    \/ \E k \in Interpreters : ParseProcess(k)
    \/ \E k \in Interpreters : ParseReturn(k)

SpecParse == Init /\ [][NextParse]_vars


(***************************************************************************)
(* Properties.                                                             *)
(***************************************************************************)
ParseFinished(k) == parse[k].result \notin {"none", "running"}

\* C1: on every Interpreter, parse of an empty or absent text returns exactly
\* {intent: {name: "", confidence: 0.0}, entities: [], text: ""} and calls
\* process on no component.
C1_EmptyTextShortCircuit ==
    \A k \in Interpreters :
        (parse[k].calls > 0 /\ (parse[k].text = None \/ parse[k].text = "")) =>
            /\ parse[k].result = "returned"
            /\ parse[k].pc = "idle"
            /\ parse[k].output =
                   Some([intent |-> [name |-> "", confidence |-> 0],
                         entities |-> <<>>, text |-> ""])
            /\ parse[k].log = <<>>

\* C1 happens: an Interpreter with components has parsed the empty text.
C1_Witness ==
    \E k \in Interpreters :
        /\ Len(interp[k].pipeline) > 1
        /\ parse[k].text = ""
        /\ parse[k].result = "returned"

\* the keys the components called in the parse call of k have written
WrittenKeys(k) ==
    UNION {process_writes(parse[k].log[n].name) : n \in 1..Len(parse[k].log)}

\* C2: for a non-empty text the mapping parse returns has the keys intent and
\* entities, and each of them that no component wrote in this call holds its
\* default value.
C2_DefaultsSurvive ==
    \A k \in Interpreters :
        (parse[k].result = "returned" /\ parse[k].text \notin {None, ""}) =>
            /\ {"intent", "entities"} \subseteq DOMAIN parse[k].output.val
            /\ "intent" \notin WrittenKeys(k) =>
                   parse[k].output.val["intent"] = [name |-> "", confidence |-> 0]
            /\ "entities" \notin WrittenKeys(k) =>
                   parse[k].output.val["entities"] = <<>>

\* C2 happens: a parse of a non-empty text returned, with a component that
\* wrote the intent and none that wrote the entities.
C2_Witness ==
    \E k \in Interpreters :
        /\ parse[k].result = "returned"
        /\ parse[k].text = "hi"
        /\ WrittenKeys(k) = {"intent"}
        /\ parse[k].output.val["intent"] # [name |-> "", confidence |-> 0]

\* C3: in a parse call with non-empty text the process calls are those of the
\* pipeline's components, once each and in pipeline order: at every moment
\* the calls made are the first components in order, and a call that returns
\* has made them all; the pipeline of a loaded Interpreter is in the order of
\* the identifiers of metadata.pipeline.
C3_ProcessInPipelineOrder ==
    \A k \in Interpreters :
        /\ (parse[k].calls > 0 /\ parse[k].text \notin {None, ""}) =>
              /\ Len(parse[k].log) <= Len(interp[k].pipeline)
              /\ \A n \in 1..Len(parse[k].log) :
                    /\ parse[k].log[n].call = "process"
                    /\ parse[k].log[n].pos = n
                    /\ parse[k].log[n].name = interp[k].pipeline[n]
              /\ parse[k].result = "returned" =>
                    Len(parse[k].log) = Len(interp[k].pipeline)
        /\ ~interp[k].model_metadata.isNone =>
              LET idents == interp[k].model_metadata.val.metadata["pipeline"]
              IN /\ Len(interp[k].pipeline) = Len(idents)
                 /\ \A n \in 1..Len(idents) :
                       <<"stubs", interp[k].pipeline[n]>> = idents[n]

\* C3 happens: a loaded Interpreter of three components returned from a parse.
C3_Witness ==
    /\ Len(interp["loaded"].pipeline) = 3
    /\ parse["loaded"].result = "returned"
    /\ parse["loaded"].text = "hi"

\* the entries of a log that are calls of the given methods
Calls(log, methods) == {n \in 1..Len(log) : log[n].call \in methods}

\* the identifiers of the Trainer's pipeline components, in order
TrainerIdentifiers ==
    [n \in 1..Len(trainer_pipeline) |-> <<"stubs", trainer_pipeline[n]>>]

\* C4: the Metadata record Trainer.persist writes has a pipeline entry equal,
\* in length and order, to the identifiers of the Trainer's pipeline
\* components, and a language entry equal to the configured language,
\* whatever the persist calls of the corpus and of the components return.
C4_MetadataPipelineMatches ==
    \A d \in DOMAIN fs :
        ~fs[d].metadata.isNone =>
            /\ fs[d].metadata.val["pipeline"] = TrainerIdentifiers
            /\ fs[d].metadata.val["language"] = config.language

\* the left fold of a sequence of returned mappings, later keys overwriting
\* earlier ones, an empty or absent mapping contributing nothing
RECURSIVE FoldReturns(_)
FoldReturns(rets) ==
    IF Len(rets) = 0
    THEN <<>>
    ELSE LET d == FoldReturns(SubSeq(rets, 1, Len(rets) - 1))
             r == rets[Len(rets)]
         IN IF r.isNone \/ DOMAIN r.val = {}
            THEN d
            ELSE [k \in DOMAIN d \cup DOMAIN r.val |->
                     IF k \in DOMAIN r.val THEN r.val[k] ELSE d[k]]

\* the context the claim gives the train call at position n
ExpectedTrainContext(n) ==
    FoldReturns(
        [j \in 1..Len(trainer_pipeline) |-> provide_context(trainer_pipeline[j])]
        \o [j \in 1..(n - 1) |-> train_returns(trainer_pipeline[j])])

\* C5: the context passed to the train call at position i is the left fold,
\* later keys overwriting earlier ones, of the provide_context() results of
\* all components in pipeline order, then of the train returns of the
\* components before i; for A ({x: 1}), B ({x: 2, y: 3}), C the component
\* C sees {x: 2, y: 3}.
C5_TrainContextIsLeftFold ==
    \A n \in Calls(train_log, {"train"}) :
        /\ train_log[n].context = ExpectedTrainContext(train_log[n].pos)
        /\ (trainer_pipeline = <<"A", "B", "C">> /\ train_log[n].pos = 3) =>
              train_log[n].context = [x |-> 2, y |-> 3]

\* C5 happens: in the pipeline B, C, A the component A is trained with B's
\* y, and with the m and the x that C's train returned.
C5_Witness ==
    /\ trainer_pipeline = <<"B", "C", "A">>
    /\ \E n \in Calls(train_log, {"train"}) :
          /\ train_log[n].pos = 3
          /\ train_log[n].context = [x |-> 9, y |-> 3, m |-> 7]

\* C6: with validation enabled, a failed argument validation makes train
\* raise MissingArgumentError before prepare_partial_processing or train is
\* called on any component, and no Interpreter is returned; with
\* skip_validation the validation never runs and the first component's
\* training starts whatever the context.
C6_ValidationBeforeTraining ==
    /\ ~skip_validation =>
          /\ (\E n \in Calls(train_log, {"validate_arguments"}) :
                 ~validate_arguments(trainer_pipeline, train_log[n].context))
             => /\ train_result = "MissingArgumentError"
                /\ Calls(train_log, {"prepare_partial_processing", "train"}) = {}
                /\ ~interp["trained"].exists
                /\ n_trained_ok = 0
          /\ train_result = "MissingArgumentError" =>
                Calls(train_log, {"prepare_partial_processing", "train"}) = {}
          /\ Calls(train_log, {"prepare_partial_processing", "train"}) # {} =>
                Calls(train_log, {"validate_arguments"}) # {}
    /\ skip_validation =>
          /\ Calls(train_log, {"validate_arguments"}) = {}
          /\ train_result # "MissingArgumentError"
          /\ (train_result \in {"returned", "TypeError"}
              /\ Len(trainer_pipeline) > 0)
             => \E n \in Calls(train_log, {"train"}) : train_log[n].pos = 1

\* C6 happens: a validated train call of a three-component pipeline raised
\* MissingArgumentError.
C6_Witness ==
    /\ ~skip_validation
    /\ Len(trainer_pipeline) = 3
    /\ train_result = "MissingArgumentError"

\* C7: persist on a Trainer whose train was never called fails with
\* InvalidStateError.
C7_PersistBeforeTrainRejected ==
    (n_train = 0 /\ persist_result \notin {"none", "running"}) =>
        persist_result = "InvalidStateError"

\* C8: for the same text, the Interpreter loaded from the directory a trained
\* Trainer persisted returns from parse what the Interpreter returned by
\* train returns.
C8_RoundTrip ==
    (/\ interp["trained"].exists
     /\ interp["loaded"].exists
     /\ interp["loaded"].model_metadata.val.model_dir \in DOMAIN fs
     /\ fs[interp["loaded"].model_metadata.val.model_dir].of_trained
     /\ ParseFinished("trained")
     /\ ParseFinished("loaded")
     /\ parse["trained"].text = parse["loaded"].text)
    => /\ parse["loaded"].result = parse["trained"].result
       /\ parse["loaded"].output = parse["trained"].output

\* C9: two persist calls with the same path and project_name and without
\* fixed_model_name never return the same directory.
C9_DistinctDirectories ==
    \A d \in DOMAIN fs : fs[d].unnamed_returns <= 1

\* C10: train never changes the caller's corpus: every component's train is
\* given the copy made in this train call.
C10_CallerCorpusUntouched ==
    /\ heap[CallerData] = {"gold"}
    /\ \A n \in Calls(train_log, {"train"}) :
          /\ train_log[n].data # CallerData
          /\ train_log[n].data = NextRef(heap) - 1

\* C10 happens: a train call returned whose components annotated the data
\* they were given.
C10_Witness ==
    /\ train_result = "returned"
    /\ \E n \in Calls(train_log, {"train"}) :
          heap[train_log[n].data] # heap[CallerData]

\* the component calls of a log: method, position, component, context and
\* prior components, without the reference of the data
CallsOf(log) == [n \in 1..Len(log) |-> [log[n] EXCEPT !.data = NoRef]]

\* the references of the working copies a log's train calls were given
WorkingCopies(log) == {log[n].data : n \in Calls(log, {"train"})}

\* C11: a later train call on the same Trainer starts again from nothing: its
\* context starts empty, its working copy is a new object holding the
\* caller's corpus and only this call's annotations, and it makes the same
\* component calls with the same contexts, in the same order, as the call
\* before it.
C11_RetrainIsFresh ==
    /\ Len(train_log) > 0 => train_log[1].context = EmptyDict
    /\ pc \in {"train_prepare", "train_component"} =>
          /\ frame.working_data \notin WorkingCopies(prev_train_log)
          /\ frame.working_data # CallerData
          /\ heap[frame.working_data] =
                 {"gold"} \cup {trainer_pipeline[j] : j \in 1..(frame.i - 1)}
    /\ n_train >= 2 =>
          /\ Len(train_log) <= Len(prev_train_log)
          /\ CallsOf(train_log) =
                 SubSeq(CallsOf(prev_train_log), 1, Len(train_log))
          /\ train_result # "running" => Len(train_log) = Len(prev_train_log)
          /\ WorkingCopies(train_log) \cap WorkingCopies(prev_train_log) = {}

\* C11 happens: the second train call of a three-component pipeline returned,
\* after a first call whose components annotated their copy and returned
\* context.
C11_Witness ==
    /\ n_train = 2
    /\ train_result = "returned"
    /\ Len(trainer_pipeline) = 3
    /\ interp["trained"].context # EmptyDict
    /\ \E r \in WorkingCopies(prev_train_log) : heap[r] # {"gold"}
    /\ WorkingCopies(train_log) # {}

\* C12: in a train call, prepare_partial_processing of the component at
\* position i is given exactly the components before i, in order, each of
\* which has completed its train in this call, and is followed at once by
\* the train of the component at i; the train calls are those of the
\* pipeline's components, once each and in pipeline order.
C12_PrepareSeesTrainedPrefix ==
    /\ \A n \in Calls(train_log, {"prepare_partial_processing"}) :
          LET i == train_log[n].pos
          IN /\ train_log[n].name = trainer_pipeline[i]
             /\ train_log[n].prior = [j \in 1..(i - 1) |-> trainer_pipeline[j]]
             /\ \A j \in 1..(i - 1) :
                   /\ trained[j] >= 1
                   /\ \E m \in 1..(n - 1) :
                         /\ train_log[m].call = "train"
                         /\ train_log[m].pos = j
             /\ n < Len(train_log) =>
                   /\ train_log[n + 1].call = "train"
                   /\ train_log[n + 1].pos = i
    /\ \A n \in Calls(train_log, {"train"}) :
          /\ n > 1
          /\ train_log[n - 1].call = "prepare_partial_processing"
          /\ train_log[n - 1].pos = train_log[n].pos
          /\ train_log[n].name = trainer_pipeline[train_log[n].pos]
          /\ train_log[n].pos =
                 Cardinality({m \in Calls(train_log, {"train"}) : m <= n})
    /\ train_result = "returned" =>
          Cardinality(Calls(train_log, {"train"})) = Len(trainer_pipeline)

\* C12 happens: the third component of a pipeline was prepared with the two
\* components before it and the train call returned.
C12_Witness ==
    /\ train_result = "returned"
    /\ \E n \in Calls(train_log, {"prepare_partial_processing"}) :
          /\ train_log[n].pos = 3
          /\ Len(train_log[n].prior) = 2

\* C13: the steps of a persist call are in this order: the directory is
\* created first, before the corpus and the components persist into it; the
\* components persist once each, in pipeline order; the Metadata is written
\* once, after the persist of every component; the persistor is called once,
\* after the Metadata, when one was supplied, and never when none was.
C13_PersistStepOrder ==
    /\ pc \in {"persist_corpus", "persist_component", "persist_persistor",
               "persist_return"} => frame.dir_name \in DOMAIN fs
    /\ persist_log # <<>> =>
          /\ persist_log[1].call = "create_dir"
          /\ Calls(persist_log, {"create_dir"}) = {1}
    /\ \A n \in Calls(persist_log, {"persist"}) :
          LET k == Cardinality({m \in Calls(persist_log, {"persist"}) : m <= n})
          IN /\ persist_log[n].pos = k
             /\ k <= Len(trainer_pipeline)
             /\ persist_log[n].name = trainer_pipeline[k]
    /\ \A n \in Calls(persist_log, {"Metadata.persist"}) :
          /\ Calls(persist_log, {"Metadata.persist"}) = {n}
          /\ \A m \in Calls(persist_log, {"persist", "corpus.persist"}) : m < n
          /\ Cardinality(Calls(persist_log, {"persist"})) = Len(trainer_pipeline)
    /\ \A n \in Calls(persist_log, {"persistor.persist"}) :
          /\ Calls(persist_log, {"persistor.persist"}) = {n}
          /\ n = Len(persist_log)
          /\ \E m \in Calls(persist_log, {"Metadata.persist"}) : m < n
    /\ pc = "persist_return" =>
          /\ Cardinality(Calls(persist_log, {"Metadata.persist"})) = 1
          /\ Cardinality(Calls(persist_log, {"persistor.persist"})) =
                 IF frame.persistor # None THEN 1 ELSE 0

\* C13 happens: a persist call with a persistor, on a Trainer of three
\* components holding a corpus, has come to its return.
C13_Witness ==
    /\ pc = "persist_return"
    /\ frame.persistor # None
    /\ Len(trainer_pipeline) = 3
    /\ Calls(persist_log, {"corpus.persist"}) # {}
    /\ Cardinality(Calls(persist_log, {"persist"})) = 3

IsLoad(e) == e.call = "load_component"

\* the load_component calls of the current or last create call, in order
CreateLoads == SelectSeq(create_log, IsLoad)

\* the fold of the provide_context() results of the first n of the components
\* given
ProvidedContext(components, n) ==
    FoldReturns([j \in 1..n |-> provide_context(components[j])])

\* C14: in create, the component at position i is loaded with the left fold,
\* later keys overwriting earlier ones, of the provide_context() results of
\* the components loaded before it, and the returned Interpreter holds the
\* fold over all of them; this is the fold with which train, for the same
\* components, builds its context before it trains any of them.
C14_CreateContextIsLeftFold ==
    /\ \A n \in 1..Len(CreateLoads) :
          /\ CreateLoads[n].pos = n
          /\ CreateLoads[n].context =
                 ProvidedContext([j \in 1..Len(CreateLoads) |->
                                     CreateLoads[j].name], n - 1)
    /\ create_result.status = "returned" =>
          /\ interp["loaded"].pipeline =
                 [j \in 1..Len(CreateLoads) |-> CreateLoads[j].name]
          /\ interp["loaded"].context =
                 ProvidedContext(interp["loaded"].pipeline,
                                 Len(interp["loaded"].pipeline))
          /\ interp["loaded"].pipeline = trainer_pipeline =>
                 \A n \in 1..Len(train_log) :
                     (\/ train_log[n].call = "validate_arguments"
                      \/ /\ train_log[n].call = "prepare_partial_processing"
                         /\ train_log[n].pos = 1)
                     => train_log[n].context = interp["loaded"].context

\* C14 happens: an Interpreter of the components B, A, C was loaded, A with
\* B's context and C with A's x over B's, for a Trainer that trained them.
C14_Witness ==
    /\ create_result.status = "returned"
    /\ interp["loaded"].pipeline = <<"B", "A", "C">>
    /\ trainer_pipeline = <<"B", "A", "C">>
    /\ train_result = "returned"
    /\ CreateLoads[2].context = [x |-> 2, y |-> 3]
    /\ CreateLoads[3].context = [x |-> 1, y |-> 3]
    /\ interp["loaded"].context = [x |-> 1, y |-> 3]

\* C15: when in create the provide_context() of the component loaded at
\* position i raises MissingArgumentError, create raises an error of its own
\* that wraps it, carrying the name of that component and the cause; no
\* Interpreter is returned and no component after i is loaded.
C15_InitializationErrorWraps ==
    /\ \A n \in 1..Len(CreateLoads) :
          loaded_provide_context_raises(CreateLoads[n].name,
                                        CreateLoads[n].context)
          => /\ n = Len(CreateLoads)
             /\ create_result.status = "raised"
             /\ create_result.error # create_result.cause
             /\ create_result.component = CreateLoads[n].name
             /\ create_result.cause = "MissingArgumentError"
             /\ ~interp["loaded"].exists
    /\ create_result.status = "raised" =>
          /\ Len(CreateLoads) > 0
          /\ loaded_provide_context_raises(CreateLoads[Len(CreateLoads)].name,
                                           CreateLoads[Len(CreateLoads)].context)

\* C15 happens: the second of three persisted components failed in create.
C15_Witness ==
    /\ create_result.status = "raised"
    /\ Len(CreateLoads) = 2
    /\ \E d \in DOMAIN fs :
          /\ ~fs[d].metadata.isNone
          /\ Len(fs[d].metadata.val["pipeline"]) = 3

\* the outcomes of a call that are not an error of a component
NoComponentError == {"none", "running", "returned", "MissingArgumentError"}

\* C16: an error raised by the prepare_partial_processing or the train of
\* the component at position i ends the train call with that very error:
\* the call is not made again, no component after i is prepared or trained,
\* no Interpreter is returned, and the components before i stay trained;
\* an error raised by a component's process ends the parse call with that
\* very error, no later component being called and nothing returned.
C16_ComponentErrorsPropagate ==
    /\ \A n \in Calls(train_log, {"prepare_partial_processing", "train"}) :
          LET e == train_log[n]
              raises == IF e.call = "train"
                        THEN train_raises(e.name, e.context)
                        ELSE prepare_raises(e.name, e.prior)
              error == IF e.call = "train"
                       THEN train_error(e.name)
                       ELSE prepare_error(e.name)
          IN raises =>
                /\ n = Len(train_log)
                /\ train_result = error
                /\ \A m \in Calls(train_log, {"prepare_partial_processing",
                                                "train"}) :
                      /\ train_log[m].pos <= e.pos
                      /\ (m # n /\ train_log[m].pos = e.pos) =>
                             train_log[m].call # e.call
                /\ ~interp["trained"].exists
                /\ \A j \in 1..Len(trainer_pipeline) :
                      trained[j] = IF j < e.pos THEN 1 ELSE 0
    /\ train_result \notin NoComponentError =>
          /\ Len(train_log) > 0
          /\ LET e == train_log[Len(train_log)]
             IN \/ e.call = "train" /\ train_raises(e.name, e.context)
                \/ /\ e.call = "prepare_partial_processing"
                   /\ prepare_raises(e.name, e.prior)
    /\ \A k \in Interpreters :
          /\ \A n \in 1..Len(parse[k].log) :
                process_raises(parse[k].log[n].name, parse[k].log[n].context) =>
                   /\ n = Len(parse[k].log)
                   /\ parse[k].result = process_error(parse[k].log[n].name)
                   /\ parse[k].pc = "idle"
                   /\ parse[k].output.isNone
          /\ parse[k].result \notin NoComponentError =>
                /\ Len(parse[k].log) > 0
                /\ LET e == parse[k].log[Len(parse[k].log)]
                   IN process_raises(e.name, e.context)

\* C16 happens: the train of the pipeline A, B, E raised at E, after A and
\* B were trained; the components were persisted and loaded, and the parse
\* of the loaded Interpreter raised at E, after A and B.
C16_Witness ==
    /\ trainer_pipeline = <<"A", "B", "E">>
    /\ train_result = "RuntimeError"
    /\ trained = <<1, 1, 0>>
    /\ interp["loaded"].pipeline = <<"A", "B", "E">>
    /\ parse["loaded"].result = "KeyError"
    /\ Len(parse["loaded"].log) = 3

\* C17: once a train call has raised on a Trainer none of whose train calls
\* has returned, persist is rejected with InvalidStateError: it never comes
\* to write into a model directory.
C17_PersistAfterFailedTrainRejected ==
    (train_result \notin {"none", "running", "returned"} /\ n_trained_ok = 0) =>
        /\ pc \notin {"persist_corpus", "persist_component",
                      "persist_persistor", "persist_return"}
        /\ persist_result # "running"

\* the keys marked as output properties in the parse call of k
MarkedKeys(k) ==
    UNION {process_marks(parse[k].log[n].name) : n \in 1..Len(parse[k].log)}

\* the process calls of the parse call of k that wrote the key
Writers(k, key) ==
    {n \in 1..Len(parse[k].log) : key \in DOMAIN parse[k].log[n].written}

LastWriter(k, key) ==
    CHOOSE n \in Writers(k, key) : \A m \in Writers(k, key) : m <= n

\* C18: in the mapping a parse of a non-empty text returns, every output
\* property holds the value its last writer in pipeline order wrote, whoever
\* wrote it before, and not the default of that key.
C18_LastWriterWins ==
    \A k \in Interpreters :
        (parse[k].result = "returned" /\ parse[k].text \notin {None, ""}) =>
            \A key \in MarkedKeys(k) :
                /\ key \in DOMAIN parse[k].output.val
                /\ parse[k].output.val[key] =
                       parse[k].log[LastWriter(k, key)].written[key]
                /\ key \in DOMAIN default_output_attributes =>
                       parse[k].output.val[key] # default_output_attributes[key]

\* C18 happens: a parse returned the intent of E, the last of several
\* components that wrote the intent.
C18_Witness ==
    \E k \in Interpreters :
        /\ parse[k].result = "returned"
        /\ Cardinality(Writers(k, "intent")) >= 2
        /\ parse[k].output.val["intent"] = [name |-> "e", confidence |-> 2]

\* the message after the first n components of a pipeline have processed it
RECURSIVE Processed(_, _, _, _)
Processed(pipeline, ctx, msg, n) ==
    IF n = 0
    THEN msg
    ELSE process(pipeline[n], Processed(pipeline, ctx, msg, n - 1), ctx)

\* what the first parse of a non-empty text gives on a new Interpreter of
\* this pipeline and context: the error of the first component that raises,
\* or the defaults overlaid by the output properties of the message
FirstParse(pipeline, ctx, text, time) ==
    LET raising == {n \in 1..Len(pipeline) : process_raises(pipeline[n], ctx)}
        defaults == [intent |-> [name |-> "", confidence |-> 0],
                     entities |-> <<>>]
        msg == Processed(pipeline, ctx,
                   [text |-> text, data |-> defaults, output_properties |-> {},
                    time |-> time], Len(pipeline))
    IN IF raising # {}
       THEN [result |-> process_error(
                            pipeline[CHOOSE n \in raising :
                                        \A m \in raising : n <= m]),
             output |-> NoneRet]
       ELSE [result |-> "returned",
             output |-> Some([key \in DOMAIN defaults \cup msg.output_properties |->
                                IF key \in msg.output_properties
                                THEN msg.data[key]
                                ELSE defaults[key]])]

\* C19: every parse call of a non-empty text starts from a Message of its
\* own over newly made defaults, and parse changes neither the pipeline nor
\* the context of its Interpreter; so whatever calls came before, a parse
\* gives what the first parse of the text gives on a new Interpreter of the
\* same components and context.
C19_ParseCallsAreIndependent ==
    /\ \A k \in Interpreters :
          /\ (parse[k].pc = "process" /\ parse[k].i = 1) =>
                parse[k].message =
                    Some([text |-> parse[k].text,
                          data |-> [intent |-> [name |-> "", confidence |-> 0],
                                    entities |-> <<>>],
                          output_properties |-> {}, time |-> parse[k].time])
          /\ (ParseFinished(k) /\ parse[k].text \notin {None, ""}) =>
                LET first == FirstParse(interp[k].pipeline, interp[k].context,
                                        parse[k].text, parse[k].time)
                IN /\ parse[k].result = first.result
                   /\ parse[k].output = first.output
    /\ interp["trained"].exists =>
          /\ interp["trained"].pipeline = trainer_pipeline
          /\ interp["trained"].context =
                 ExpectedTrainContext(Len(trainer_pipeline) + 1)
    /\ interp["loaded"].exists =>
          /\ interp["loaded"].pipeline =
                 [j \in 1..Len(CreateLoads) |-> CreateLoads[j].name]
          /\ interp["loaded"].context =
                 ProvidedContext(interp["loaded"].pipeline,
                                 Len(interp["loaded"].pipeline))

\* C19 happens: the second parse call on an Interpreter whose component B
\* appends to the entities returned entities with one b.
C19_Witness ==
    \E k \in Interpreters :
        /\ parse[k].calls = 2
        /\ parse[k].result = "returned"
        /\ parse[k].text = "hi"
        /\ \E n \in 1..Len(interp[k].pipeline) : interp[k].pipeline[n] = "B"
        /\ parse[k].output.val["entities"] = <<"b">>

\* C20: with the process steps of a parse call on the trained Interpreter
\* and of one on the loaded Interpreter interleaved in any order, each call
\* holds at every step the Message its own components have made of its own
\* text, gives every component its own Interpreter's context, and ends as
\* it ends when it runs alone.
C20_InterleavedParsesAreIsolated ==
    \A k \in Interpreters :
        /\ parse[k].pc = "process" =>
              parse[k].message.val =
                  Processed(interp[k].pipeline, interp[k].context,
                            Message(parse[k].text, default_output_attributes,
                                    parse[k].time),
                            parse[k].i - 1)
        /\ \A n \in 1..Len(parse[k].log) :
              parse[k].log[n].context = interp[k].context
        /\ (ParseFinished(k) /\ parse[k].text \notin {None, ""}) =>
              [result |-> parse[k].result, output |-> parse[k].output] =
                  FirstParse(interp[k].pipeline, interp[k].context,
                             parse[k].text, parse[k].time)

\* C20 happens: the two parse calls are both under way, each after the
\* process of its first component, on Interpreters of different contexts.
C20_Witness ==
    /\ parse["trained"].pc = "process"
    /\ parse["loaded"].pc = "process"
    /\ parse["trained"].i = 2
    /\ parse["loaded"].i = 2
    /\ interp["trained"].context # interp["loaded"].context

====
